---- MODULE Spec2Model ----
(***************************************************************************)
(* AutoML_MultipleCSVs_Pred.py: batch driver that lists the CSV objects    *)
(* under an S3 prefix, sends each file's rows to a SageMaker endpoint,     *)
(* merges the returned predictions into the rows and writes the result     *)
(* under an output prefix.                                                 *)
(*                                                                         *)
(* Strings that the code inspects (object keys) are sequences of tokens:   *)
(* "100csv/sub/a.csv" is <<"100csv", "/", "sub", "/", "a", ".csv">>.       *)
(* JSON / cell values are tagged records [t |-> tag, v |-> payload].       *)
(***************************************************************************)
EXTENDS Integers, Sequences, FiniteSets, TLC

VARIABLES
    bucket,               \* the S3 bucket: object key -> body
    pc,                   \* position of the single thread of control
    csv_files,            \* process_all_csv_files: the listed keys
    idx,                  \* process_all_csv_files: files taken by the for loop
    file_key,             \* process_csv_file: its argument
    file_content,         \* process_csv_file: decoded body of the input
    df,                   \* process_csv_file: the DataFrame
    input_data,           \* process_csv_file: payload sent to the endpoint
    prediction_response,  \* process_csv_file: decoded endpoint response
    exc,                  \* the exception in flight, or NoExc
    outcome,              \* how process_all_csv_files ended
    calls,                \* history: arguments of the process_csv_file calls
    log,                  \* history: the steps taken, with their results
    bucket0               \* history: the bucket when the run started

vars == <<bucket, pc, csv_files, idx, file_key, file_content, df, input_data,
          prediction_response, exc, outcome, calls, log, bucket0>>

----------------------------------------------------------------------------
(* Bounds of the model *)

\* Keys returned by one list_objects_v2 call (S3 returns at most 1000; the
\* model scales the page down so that a bucket can hold more than one page).
MaxKeys == 2

\* Rows of a frame, and records of a prediction list, in the merge
\* specification
MaxRows == 3

----------------------------------------------------------------------------
(* Configuration, lines 13-16 *)

input_prefix == <<"100csv", "/">>
output_prefix == <<"outputs", "/">>

----------------------------------------------------------------------------
(* Python string operations on token sequences *)

StartsWith(s, p) == Len(s) >= Len(p) /\ SubSeq(s, 1, Len(p)) = p

EndsWith(s, suffix) ==
    Len(s) >= Len(suffix) /\ SubSeq(s, Len(s) - Len(suffix) + 1, Len(s)) = suffix

\* s.split('/')[-1]
LastSegment(s) ==
    LET seps == {i \in 1..Len(s) : s[i] = "/"}
        last == CHOOSE i \in seps : \A j \in seps : j <= i
    IN  IF seps = {} THEN s ELSE SubSeq(s, last + 1, Len(s))

----------------------------------------------------------------------------
(* Values: JSON values decoded by json.loads, and DataFrame cells *)

Num(n) == [t |-> "num", v |-> n]
Str(s) == [t |-> "str", v |-> s]
List(items) == [t |-> "list", v |-> items]
\* a dict is the sequence of its (key, value) items, in insertion order
Dict(items) == [t |-> "dict", v |-> items]
NaN == [t |-> "nan", v |-> 0]

IsList(x) == x.t = "list"
IsDict(x) == x.t = "dict"
IsScalar(x) == x.t \in {"num", "str", "nan"}

\* key in d
HasKey(d, k) == \E n \in 1..Len(d.v) : d.v[n][1] = k

\* d[key]
Lookup(d, k) == d.v[CHOOSE n \in 1..Len(d.v) : d.v[n][1] = k][2]

RECURSIVE JsonDumps(_)
RECURSIVE JoinValues(_, _)
RECURSIVE JoinItems(_, _)

\* ", ".join(dumps(x) for x in items[n:])
JoinValues(items, n) ==
    IF n > Len(items) THEN ""
    ELSE JsonDumps(items[n]) \o (IF n < Len(items) THEN ", " ELSE "")
         \o JoinValues(items, n + 1)

JoinItems(items, n) ==
    IF n > Len(items) THEN ""
    ELSE "\"" \o items[n][1] \o "\": " \o JsonDumps(items[n][2])
         \o (IF n < Len(items) THEN ", " ELSE "") \o JoinItems(items, n + 1)

\* json.dumps(value), default separators
JsonDumps(x) ==
    CASE x.t = "num" -> ToString(x.v)
      [] x.t = "str" -> "\"" \o x.v \o "\""
      [] x.t = "list" -> "[" \o JoinValues(x.v, 1) \o "]"
      [] x.t = "dict" -> "{" \o JoinItems(x.v, 1) \o "}"
      [] OTHER -> "NaN"

----------------------------------------------------------------------------
(* DataFrame: [columns |-> <<name, ...>>, rows |-> <<row, ...>>], each row  *)
(* a sequence of cells aligned with columns.  CSV text: a sequence of      *)
(* lines, each a sequence of fields.                                       *)

EmptyField == Str("")

\* len(df)
LenDf(d) == Len(d.rows)

ColumnIndex(d, key) == CHOOSE c \in 1..Len(d.columns) : d.columns[c] = key

\* pd.read_csv(io.StringIO(text)): the first line is the header, an empty
\* field is read as NaN; requires text # <<>>
ReadCsv(text) ==
    [columns |-> [c \in 1..Len(text[1]) |-> text[1][c].v],
     rows |-> [r \in 1..(Len(text) - 1) |->
                 [c \in 1..Len(text[r + 1]) |->
                    IF text[r + 1][c] = EmptyField THEN NaN ELSE text[r + 1][c]]]]

\* df.to_csv(index=False, header=header): NaN is written as an empty field
ToCsv(d, header) ==
    (IF header THEN <<[c \in 1..Len(d.columns) |-> Str(d.columns[c])]>> ELSE <<>>)
    \o [r \in 1..Len(d.rows) |->
          [c \in 1..Len(d.rows[r]) |->
             IF d.rows[r][c] = NaN THEN EmptyField ELSE d.rows[r][c]]]

\* df.at[i, key] = value, as if a whole column were assigned (df[key] = value)
AtSetWholeColumn(d, i, key, value) ==
    IF \E c \in 1..Len(d.columns) : d.columns[c] = key
    THEN [d EXCEPT !.rows = [r \in 1..Len(d.rows) |->
                               [d.rows[r] EXCEPT ![ColumnIndex(d, key)] = value]]]
    ELSE [columns |-> Append(d.columns, key),
          rows |-> [r \in 1..Len(d.rows) |-> Append(d.rows[r], value)]]

\* df.at[i, key] = value; a new key appends a column that is NaN elsewhere
AtSet(d, i, key, value) ==
    IF \E c \in 1..Len(d.columns) : d.columns[c] = key
    THEN [d EXCEPT !.rows[i][ColumnIndex(d, key)] = value]
    ELSE [columns |-> Append(d.columns, key),
          rows |-> [r \in 1..Len(d.rows) |->
                      Append(d.rows[r], IF r = i THEN value ELSE NaN)]]

\* line 43, the stored value, without the encoding of composite values
CellValueAsIs(value) == value

\* line 43: json.dumps(value) if isinstance(value, (list, dict)) else value
CellValue(value) ==
    IF IsList(value) \/ IsDict(value) THEN Str(JsonDumps(value)) ELSE value

RECURSIVE SetItems(_, _, _, _)
\* lines 42-43: for key, value in pred.items(), from item n on
SetItems(d, i, items, n) ==
    IF n > Len(items) THEN d
    ELSE SetItems(AtSet(d, i, items[n][1], CellValue(items[n][2])), i, items, n + 1)

\* lines 41-45 with a record that is not a dict stored in a column of its own
ApplyRecordStoreOther(d, i, pred) ==
    IF IsDict(pred) THEN SetItems(d, i, pred.v, 1)
    ELSE AtSet(d, i, "prediction", CellValue(pred))

\* lines 41-45: one iteration of the loop; a record that is not a dict is
\* logged and skipped
ApplyRecord(d, i, pred) ==
    IF IsDict(pred) THEN SetItems(d, i, pred.v, 1) ELSE d

RECURSIVE MergeFrom(_, _, _)
\* lines 40-45: for i, pred in enumerate(predictions), from record i on
MergeFrom(predictions, d, i) ==
    IF i > Len(predictions.v) THEN d
    ELSE MergeFrom(predictions, ApplyRecord(d, i, predictions.v[i]), i + 1)

\* line 36 with the length test relaxed to "not longer than the frame"
ShapeOkNoLongerThan(predictions, d) ==
    IsList(predictions) /\ Len(predictions.v) <= LenDf(d)

\* line 36, negated: isinstance(predictions, list) and len(predictions) == len(df)
ShapeOk(predictions, d) ==
    IsList(predictions) /\ Len(predictions.v) = LenDf(d)

\* lines 35-47
process_predictions(predictions, d) ==
    IF ~ShapeOk(predictions, d) THEN d ELSE MergeFrom(predictions, d, 1)

----------------------------------------------------------------------------
(* The bucket *)

MarkerKey == input_prefix
AKey == input_prefix \o <<"a", ".csv">>
ATxtKey == input_prefix \o <<"a", ".txt">>
BKey == input_prefix \o <<"b", ".csv">>
SubAKey == input_prefix \o <<"sub", "/", "a", ".csv">>
OldOutputKey == output_prefix \o <<"a", ".csv">>

\* The keys a bucket may hold, in the UTF-8 binary order in which S3 lists
\* them: "100csv/" < "100csv/a.csv" < "100csv/a.txt" < "100csv/b.csv" <
\* "100csv/sub/a.csv" < "outputs/a.csv"
KeyOrder == <<MarkerKey, AKey, ATxtKey, BKey, SubAKey, OldOutputKey>>

Keys == {KeyOrder[n] : n \in 1..Len(KeyOrder)}

EmptyText == <<>>
OneRowText == <<<<Str("f")>>, <<Num(1)>>>>
TwoRowText == <<<<Str("f"), Str("label")>>, <<Num(1), Str("old")>>, <<Num(2), EmptyField>>>>

\* what an input object may hold
Bodies == {EmptyText, OneRowText, TwoRowText}

IsInputCsv(k) == StartsWith(k, input_prefix) /\ EndsWith(k, <<".csv">>)

Buckets ==
    UNION {[S -> Bodies] : S \in SUBSET Keys}

\* objects that are not inputs have one fixed body each
InitialBuckets ==
    {b \in Buckets : \A k \in DOMAIN b : ~IsInputCsv(k) => b[k] = OneRowText}

RECURSIVE Take(_, _)
Take(s, n) == IF n = 0 \/ s = <<>> THEN <<>> ELSE <<Head(s)>> \o Take(Tail(s), n - 1)

IsUnderPrefix(b, prefix, k) == k \in DOMAIN b /\ StartsWith(k, prefix)

\* s3.list_objects_v2(Bucket, Prefix)['Contents'] keys: one page, no
\* continuation: the first MaxKeys keys under the prefix, in key order
ListObjectsV2(b, prefix) ==
    LET Under(k) == IsUnderPrefix(b, prefix, k)
    IN  Take(SelectSeq(KeyOrder, Under), MaxKeys)

\* line 89: [obj['Key'] for obj in ... if obj['Key'].endswith('.csv')]
CsvKeys(contents) ==
    LET IsCsv(k) == EndsWith(k, <<".csv">>)
    IN  SelectSeq(contents, IsCsv)

\* line 77: output_prefix + file_key.split('/')[-1]
OutputKey(key) == output_prefix \o LastSegment(key)

\* s3.put_object(Bucket, Key, Body)
Put(b, key, body) ==
    [k \in DOMAIN b \cup {key} |-> IF k = key THEN body ELSE b[k]]

----------------------------------------------------------------------------
(* The endpoint *)

NotJson == [t |-> "notjson", v |-> 0]

ListEnvelope == List(<<Str("predictions")>>)
NoPredictionsEnvelope == Dict(<<<<"error", Str("bad")>>>>)
Envelope(predictions) == Dict(<<<<"predictions", predictions>>>>)

OneRecord == List(<<Dict(<<<<"label", Str("x")>>>>)>>)
TwoRecords == List(<<Dict(<<<<"label", Str("x")>>>>),
                     Dict(<<<<"label", Str("y")>>, <<"score", List(<<Num(1), Num(2)>>)>>>>)>>)

\* decoded bodies the endpoint may answer with
ResponseBodies ==
    {NotJson, ListEnvelope, NoPredictionsEnvelope, Envelope(Str("xy")),
     Envelope(OneRecord), Envelope(TwoRecords)}

----------------------------------------------------------------------------
(* Exceptions *)

NoExc == "NoExc"

\* what a boto3 call may raise: a service error (ClientError) or a failure
\* to reach the service (a BotoCoreError that is not a ClientError)
TransportErrors == {"ClientError", "EndpointConnectionError"}

\* isinstance(e, cls) for the classes the handlers name
IsInstance(e, cls) ==
    CASE cls = "Exception" -> e # NoExc
      [] cls = "ClientError" -> e = "ClientError"
      [] OTHER -> FALSE

\* line 83 written as except ClientError
FileHandlerCatchesClientError(e) == IsInstance(e, "ClientError")

\* line 83: except Exception
FileHandlerCatches(e) == IsInstance(e, "Exception")

\* line 97 written as except KeyError
AllHandlerCatchesKeyError(e) == IsInstance(e, "KeyError")

\* line 97: except Exception
AllHandlerCatches(e) == IsInstance(e, "Exception")

----------------------------------------------------------------------------
(* History *)

Event(op, ok, data) == [op |-> op, call |-> idx, ok |-> ok, data |-> data]

Logged(op, ok, data) == log' = Append(log, Event(op, ok, data))

----------------------------------------------------------------------------
(* Initial state: before process_all_csv_files() is called at line 102 *)

NoFrame == [columns |-> <<>>, rows |-> <<>>]
NoValue == [t |-> "none", v |-> 0]

Init ==
    /\ bucket \in InitialBuckets
    /\ bucket0 = bucket
    /\ pc = "list"
    /\ csv_files = <<>>
    /\ idx = 0
    /\ file_key = <<>>
    /\ file_content = <<>>
    /\ df = NoFrame
    /\ input_data = <<>>
    /\ prediction_response = NoValue
    /\ exc = NoExc
    /\ outcome = "running"
    /\ calls = <<>>
    /\ log = <<>>

----------------------------------------------------------------------------
(* process_all_csv_files, lines 86-98 *)

\* lines 88-89
ListObjects ==
    /\ pc = "list"
    /\ \/ /\ csv_files' = CsvKeys(ListObjectsV2(bucket, input_prefix))
          /\ Logged("list", TRUE, <<>>)
          /\ pc' = "listed"
          /\ exc' = exc
       \/ /\ csv_files' = csv_files
          /\ Logged("list", FALSE, <<>>)
          /\ exc' \in TransportErrors
          /\ pc' = "except_all"
    /\ UNCHANGED <<bucket, idx, file_key, file_content, df, input_data,
                   prediction_response, outcome, calls, bucket0>>

\* lines 91-93
CheckCsvFiles ==
    /\ pc = "listed"
    /\ IF csv_files = <<>>
       THEN /\ Logged("warning", TRUE, <<>>)
            /\ pc' = "done"
            /\ outcome' = "returned"
       ELSE /\ pc' = "loop"
            /\ UNCHANGED <<log, outcome>>
    /\ UNCHANGED <<bucket, csv_files, idx, file_key, file_content, df, input_data,
                   prediction_response, exc, calls, bucket0>>

\* lines 95-96: the next iteration calls process_csv_file(csv_file)
NextFile ==
    /\ pc = "loop"
    /\ idx < Len(csv_files)
    /\ idx' = idx + 1
    /\ file_key' = csv_files[idx + 1]
    /\ calls' = Append(calls, csv_files[idx + 1])
    /\ file_content' = <<>>
    /\ df' = NoFrame
    /\ input_data' = <<>>
    /\ prediction_response' = NoValue
    /\ pc' = "get_object"
    /\ UNCHANGED <<bucket, csv_files, exc, outcome, log, bucket0>>

\* line 95: the loop is exhausted and the function returns
LoopDone ==
    /\ pc = "loop"
    /\ idx >= Len(csv_files)
    /\ pc' = "done"
    /\ outcome' = "returned"
    /\ UNCHANGED <<bucket, csv_files, idx, file_key, file_content, df, input_data,
                   prediction_response, exc, calls, log, bucket0>>

\* lines 97-98
ExceptAll ==
    /\ pc = "except_all"
    /\ IF AllHandlerCatches(exc)
       THEN /\ Logged("error", TRUE, <<>>)
            /\ exc' = NoExc
            /\ outcome' = "returned"
       ELSE /\ outcome' = "raised"
            /\ UNCHANGED <<log, exc>>
    /\ pc' = "done"
    /\ UNCHANGED <<bucket, csv_files, idx, file_key, file_content, df, input_data,
                   prediction_response, calls, bucket0>>

----------------------------------------------------------------------------
(* process_csv_file, lines 49-84 *)

\* lines 54-55: s3.get_object and the decoding of its body
GetObject ==
    /\ pc = "get_object"
    /\ \/ /\ file_key \in DOMAIN bucket
          /\ file_content' = bucket[file_key]
          /\ Logged("read", TRUE, <<>>)
          /\ pc' = "read_csv"
          /\ exc' = exc
       \/ /\ file_content' = file_content
          /\ Logged("read", FALSE, <<>>)
          /\ exc' \in TransportErrors
          /\ pc' = "except_file"
    /\ UNCHANGED <<bucket, csv_files, idx, file_key, df, input_data,
                   prediction_response, outcome, calls, bucket0>>

\* lines 58-59 with an unparsable body read as an empty frame
ReadCsvLenient ==
    /\ pc = "read_csv"
    /\ df' = IF file_content = EmptyText THEN NoFrame ELSE ReadCsv(file_content)
    /\ input_data' = ToCsv(df', FALSE)
    /\ Logged("parse", file_content # EmptyText, <<>>)
    /\ pc' = "invoke"
    /\ UNCHANGED <<bucket, csv_files, idx, file_key, file_content,
                   prediction_response, exc, outcome, calls, bucket0>>

\* lines 58-59: pd.read_csv raises EmptyDataError on an empty body; the
\* payload is the frame without its header
ReadCsvStep ==
    /\ pc = "read_csv"
    /\ IF file_content = EmptyText
       THEN /\ Logged("parse", FALSE, <<>>)
            /\ exc' = "EmptyDataError"
            /\ pc' = "except_file"
            /\ UNCHANGED <<df, input_data>>
       ELSE /\ df' = ReadCsv(file_content)
            /\ input_data' = ToCsv(df', FALSE)
            /\ Logged("parse", TRUE, <<>>)
            /\ pc' = "invoke"
            /\ exc' = exc
    /\ UNCHANGED <<bucket, csv_files, idx, file_key, file_content,
                   prediction_response, outcome, calls, bucket0>>

\* lines 65 and 22-33: invoke_sagemaker_endpoint(input_data).  A ClientError
\* is logged and raised again; any other error of the call, and the
\* JSONDecodeError json.loads raises on a body that is not JSON, pass the
\* handler at line 31.
InvokeEndpoint ==
    /\ pc = "invoke"
    /\ \/ /\ exc' \in TransportErrors
          /\ log' = log \o <<Event("invoke", FALSE, input_data)>>
                       \o (IF IsInstance(exc', "ClientError")
                           THEN <<Event("error", TRUE, <<>>)>> ELSE <<>>)
          /\ pc' = "except_file"
          /\ prediction_response' = prediction_response
       \/ \E body \in ResponseBodies :
            IF body = NotJson
            THEN /\ log' = log \o <<Event("invoke", TRUE, input_data),
                                    Event("decode", FALSE, <<>>)>>
                 /\ exc' = "JSONDecodeError"
                 /\ pc' = "except_file"
                 /\ prediction_response' = prediction_response
            ELSE /\ log' = log \o <<Event("invoke", TRUE, input_data),
                                    Event("decode", TRUE, <<>>)>>
                 /\ prediction_response' = body
                 /\ pc' = "check"
                 /\ exc' = exc
    /\ UNCHANGED <<bucket, csv_files, idx, file_key, file_content, df, input_data,
                   outcome, calls, bucket0>>

\* lines 67-74 without the return at line 74
CheckEnvelopeNoReturn ==
    /\ pc = "check"
    /\ IF ~IsDict(prediction_response)
       THEN /\ Logged("check", FALSE, <<>>)
            /\ exc' = "AttributeError"
            /\ pc' = "except_file"
            /\ df' = df
       ELSE IF HasKey(prediction_response, "predictions")
       THEN /\ df' = process_predictions(Lookup(prediction_response, "predictions"), df)
            /\ Logged("check", TRUE, <<>>)
            /\ pc' = "put_object"
            /\ exc' = exc
       ELSE /\ Logged("check", FALSE, <<>>)
            /\ pc' = "put_object"
            /\ UNCHANGED <<df, exc>>
    /\ UNCHANGED <<bucket, csv_files, idx, file_key, file_content, input_data,
                   prediction_response, outcome, calls, bucket0>>

\* lines 67-74: .keys() raises AttributeError on a response that is not a
\* dict; without a 'predictions' key the function logs and returns
CheckEnvelope ==
    /\ pc = "check"
    /\ IF ~IsDict(prediction_response)
       THEN /\ Logged("check", FALSE, <<>>)
            /\ exc' = "AttributeError"
            /\ pc' = "except_file"
            /\ df' = df
       ELSE IF HasKey(prediction_response, "predictions")
       THEN /\ df' = process_predictions(Lookup(prediction_response, "predictions"), df)
            /\ Logged("check", TRUE, <<>>)
            /\ pc' = "put_object"
            /\ exc' = exc
       ELSE /\ Logged("check", FALSE, <<>>)
            /\ pc' = "loop"
            /\ UNCHANGED <<df, exc>>
    /\ UNCHANGED <<bucket, csv_files, idx, file_key, file_content, input_data,
                   prediction_response, outcome, calls, bucket0>>

\* lines 77-82
PutObject ==
    /\ pc = "put_object"
    /\ \/ /\ bucket' = Put(bucket, OutputKey(file_key), ToCsv(df, TRUE))
          /\ Logged("write", TRUE, ToCsv(df, TRUE))
          /\ pc' = "loop"
          /\ exc' = exc
       \/ /\ bucket' = bucket
          /\ Logged("write", FALSE, ToCsv(df, TRUE))
          /\ exc' \in TransportErrors
          /\ pc' = "except_file"
    /\ UNCHANGED <<csv_files, idx, file_key, file_content, df, input_data,
                   prediction_response, outcome, calls, bucket0>>

\* lines 83-84: a caught exception is logged and the function returns; any
\* other leaves the loop of the caller for the handler at line 97
ExceptFile ==
    /\ pc = "except_file"
    /\ IF FileHandlerCatches(exc)
       THEN /\ Logged("error", TRUE, <<>>)
            /\ exc' = NoExc
            /\ pc' = "loop"
       ELSE /\ pc' = "except_all"
            /\ UNCHANGED <<log, exc>>
    /\ UNCHANGED <<bucket, csv_files, idx, file_key, file_content, df, input_data,
                   prediction_response, outcome, calls, bucket0>>

----------------------------------------------------------------------------

Next ==
    \/ ListObjects
    \/ CheckCsvFiles
    \/ NextFile
    \/ LoopDone
    \/ ExceptAll
    \/ GetObject
    \/ ReadCsvStep
    \/ InvokeEndpoint
    \/ CheckEnvelope
    \/ PutObject
    \/ ExceptFile

Spec == Init /\ [][Next]_vars

----------------------------------------------------------------------------
(* process_predictions on its own: the state of process_csv_file at line   *)
(* 67, for a single input object a.csv, with the frame and the decoded     *)
(* envelope drawn from bounded sets.                                       *)

\* the CSV text of a frame with columns f, label and n rows
TextOfRows(n) ==
    <<<<Str("f"), Str("label")>>>>
    \o [r \in 1..n |-> <<Num(r), IF r % 2 = 1 THEN Str("old") ELSE EmptyField>>]

MergeTexts == {TextOfRows(n) : n \in 0..MaxRows}

PredictionRecords ==
    {Dict(<<<<"label", Str("x")>>>>),
     Dict(<<<<"label", Str("y")>>, <<"f", Num(9)>>>>),
     Dict(<<<<"score", List(<<Num(1), Num(2)>>)>>, <<"meta", Dict(<<<<"a", Str("b")>>>>)>>>>),
     Dict(<<>>),
     Num(7),
     List(<<Num(1)>>)}

PredictionValues ==
    {List(s) : s \in UNION {[1..n -> PredictionRecords] : n \in 0..MaxRows}}
    \cup {Str("xy"), Num(3), Dict(<<<<"label", Str("x")>>>>)}

InitMerge ==
    /\ file_content \in MergeTexts
    /\ \E predictions \in PredictionValues :
          prediction_response = Envelope(predictions)
    /\ bucket = [k \in {AKey} |-> file_content]
    /\ bucket0 = bucket
    /\ pc = "check"
    /\ csv_files = <<AKey>>
    /\ idx = 1
    /\ file_key = AKey
    /\ df = ReadCsv(file_content)
    /\ input_data = ToCsv(df, FALSE)
    /\ exc = NoExc
    /\ outcome = "running"
    /\ calls = <<AKey>>
    /\ log = <<[op |-> "list", call |-> 0, ok |-> TRUE, data |-> <<>>],
               [op |-> "read", call |-> 1, ok |-> TRUE, data |-> <<>>],
               [op |-> "parse", call |-> 1, ok |-> TRUE, data |-> <<>>],
               [op |-> "invoke", call |-> 1, ok |-> TRUE, data |-> input_data],
               [op |-> "decode", call |-> 1, ok |-> TRUE, data |-> <<>>]>>

NextMerge ==
    \/ CheckEnvelope
    \/ PutObject
    \/ ExceptFile
    \/ LoopDone

SpecMerge == InitMerge /\ [][NextMerge]_vars

----------------------------------------------------------------------------
(* Vocabulary of the properties *)

\* the frame process_csv_file parsed from the input of the current call
Original == ReadCsv(file_content)

\* the value of the envelope's predictions field
Predictions == Lookup(prediction_response, "predictions")

HasColumn(d, col) == \E c \in 1..Len(d.columns) : d.columns[c] = col

Cell(d, i, col) == d.rows[i][ColumnIndex(d, col)]

\* what a cell is expected to hold for a prediction value
Stored(value) ==
    IF value.t \in {"list", "dict"} THEN Str(JsonDumps(value)) ELSE value

Mismatch(p, d) == p.t # "list" \/ Len(p.v) # Len(d.rows)

\* process_predictions has just returned
Merged == pc = "put_object"

RightLength == Merged /\ ~Mismatch(Predictions, Original)

ListFailed == Len(log) >= 1 /\ log[1].op = "list" /\ ~log[1].ok

ListSucceeded == Len(log) >= 1 /\ log[1].op = "list" /\ log[1].ok

\* a step of call c before the write failed
Failed(c) ==
    \E n \in 1..Len(log) :
        /\ log[n].call = c
        /\ ~log[n].ok
        /\ log[n].op \in {"read", "parse", "invoke", "decode", "check"}

Happened(c, op, ok) ==
    \E n \in 1..Len(log) : log[n].call = c /\ log[n].op = op /\ log[n].ok = ok

\* the reads, invocations and writes of call c, in the order they were made
ExternalOps(c) ==
    LET IsExternal(e) == e.call = c /\ e.op \in {"read", "invoke", "write"}
        events == SelectSeq(log, IsExternal)
    IN  [n \in 1..Len(events) |-> events[n].op]

IsPrefix(s, t) == Len(s) <= Len(t) /\ SubSeq(t, 1, Len(s)) = s

InputCsvKeys(b) == {k \in DOMAIN b : IsInputCsv(k)}

Range(s) == {s[n] : n \in 1..Len(s)}

----------------------------------------------------------------------------
(* C1: per-file isolation.  Whatever fails inside a file, process_csv_file  *)
(* is called exactly once for every listed key, in listing order, and the  *)
(* run ends without raising: the calls made so far are the first idx       *)
(* listed keys, no exception reaches the caller's handler once a file has  *)
(* been started, and at the end of a run whose listing succeeded the calls *)
(* are exactly the listed keys.                                            *)
PerFileIsolation ==
    /\ outcome # "raised"
    /\ idx <= Len(csv_files)
    /\ calls = SubSeq(csv_files, 1, idx)
    /\ (pc = "except_all" => idx = 0)
    /\ (pc = "done" => outcome = "returned")
    /\ (pc = "done" /\ ListSucceeded => calls = csv_files)

\* a run that ended after its first file failed on a response that is not
\* JSON and its second file was written
PerFileIsolationWitness ==
    /\ pc = "done"
    /\ Len(calls) = 2
    /\ Happened(1, "decode", FALSE)
    /\ Happened(2, "write", TRUE)

(* C2: listing completeness.  After a successful listing the keys handed   *)
(* to process_csv_file are exactly the objects under the input prefix      *)
(* whose key ends with .csv; when there is none the run warns and does     *)
(* nothing else.                                                           *)
ListingComplete ==
    ListSucceeded =>
        /\ Range(csv_files) = InputCsvKeys(bucket0)
        /\ (pc = "done" => Range(calls) = InputCsvKeys(bucket0))
        /\ (pc = "done" /\ InputCsvKeys(bucket0) = {} =>
                /\ Len(log) = 2
                /\ log[2].op = "warning"
                /\ bucket = bucket0)

(* C3: side effects of one call.  Every call makes exactly one read, at    *)
(* most one invocation and at most one write, in that order; an invocation *)
(* follows a successful read and parse of the same call, and a write       *)
(* follows an envelope with a predictions field.                           *)
SideEffectOrder ==
    /\ \A c \in 1..Len(calls) :
          /\ IsPrefix(ExternalOps(c), <<"read", "invoke", "write">>)
          /\ (c < idx \/ pc # "get_object" => Len(ExternalOps(c)) >= 1)
          /\ (Happened(c, "invoke", TRUE) \/ Happened(c, "invoke", FALSE) =>
                Happened(c, "read", TRUE) /\ Happened(c, "parse", TRUE))
          /\ (Happened(c, "write", TRUE) \/ Happened(c, "write", FALSE) =>
                Happened(c, "invoke", TRUE) /\ Happened(c, "check", TRUE))
    /\ (pc = "put_object" =>
          IsDict(prediction_response) /\ HasKey(prediction_response, "predictions"))
    /\ (idx = 0 => \A n \in 1..Len(log) : log[n].op \notin {"read", "invoke", "write"})

\* a call that read, invoked and wrote
SideEffectOrderWitness ==
    /\ pc = "loop"
    /\ idx >= 1
    /\ ExternalOps(idx) = <<"read", "invoke", "write">>
    /\ Happened(idx, "write", TRUE)

(* C4: no output on failure.  A call whose read, parse, invocation, JSON   *)
(* decoding or predictions check failed makes no write; while every call   *)
(* so far has failed that way the bucket is what it was at the start; the  *)
(* failure does not leave process_csv_file, and the run goes on to the     *)
(* remaining files.                                                        *)
NoOutputOnFailure ==
    /\ \A c \in 1..Len(calls) :
          Failed(c) =>
             /\ ~Happened(c, "write", TRUE)
             /\ ~Happened(c, "write", FALSE)
             /\ pc # "except_all"
             /\ outcome # "raised"
             /\ (pc = "done" => calls = csv_files)
    /\ ((\A c \in 1..Len(calls) : Failed(c)) => bucket = bucket0)

\* a finished run whose two files failed, one on a response that is not
\* JSON and one on an envelope without predictions
NoOutputOnFailureWitness ==
    /\ pc = "done"
    /\ Len(calls) = 2
    /\ \E c, d \in 1..2 : Happened(c, "decode", FALSE) /\ Happened(d, "check", FALSE)
    /\ \A c \in 1..2 : Failed(c)
    /\ bucket = bucket0

(* C5: shape mismatch passes through.  When predictions is not a list or   *)
(* its length differs from the row count, process_predictions returns the  *)
(* frame unchanged and the call goes on to the write; the object written   *)
(* parses to the frame of the input.                                       *)
MismatchPassesThrough ==
    /\ (pc = "put_object" /\ Mismatch(Predictions, Original) => df = Original)
    /\ (/\ pc \in {"put_object", "loop", "except_file"}
        /\ log[Len(log)].op = "check"
        /\ log[Len(log)].ok
        /\ Mismatch(Predictions, Original)) => pc = "put_object"
    /\ (/\ pc = "loop"
        /\ log[Len(log)].op = "write"
        /\ log[Len(log)].ok
        /\ Mismatch(Predictions, Original)) =>
             /\ OutputKey(file_key) \in DOMAIN bucket
             /\ ReadCsv(bucket[OutputKey(file_key)]) = Original

\* a two-row input answered with one record, written
MismatchPassesThroughWitness ==
    /\ pc = "loop"
    /\ file_content = TwoRowText
    /\ prediction_response = Envelope(OneRecord)
    /\ log[Len(log)].op = "write"
    /\ log[Len(log)].ok
    /\ bucket[OutputKey(file_key)] = TwoRowText

(* C6: merge of scalar records.  For a list of the frame's length whose    *)
(* records are all mappings of scalars, the result has the same rows, in   *)
(* order, every original column, every supplied cell equal to the supplied *)
(* value and every other original cell unchanged.                          *)
ScalarRecords ==
    /\ RightLength
    /\ \A i \in 1..Len(Predictions.v) :
          /\ IsDict(Predictions.v[i])
          /\ \A n \in 1..Len(Predictions.v[i].v) : IsScalar(Predictions.v[i].v[n][2])

MergeOfScalarRecords ==
    ScalarRecords =>
        /\ LenDf(df) = LenDf(Original)
        /\ \A c \in 1..Len(Original.columns) : HasColumn(df, Original.columns[c])
        /\ \A i \in 1..LenDf(df) :
              /\ Len(df.rows[i]) = Len(df.columns)
              /\ \A n \in 1..Len(Predictions.v[i].v) :
                    /\ HasColumn(df, Predictions.v[i].v[n][1])
                    /\ Cell(df, i, Predictions.v[i].v[n][1]) = Predictions.v[i].v[n][2]
              /\ \A c \in 1..Len(Original.columns) :
                    ~HasKey(Predictions.v[i], Original.columns[c]) =>
                        Cell(df, i, Original.columns[c]) = Cell(Original, i, Original.columns[c])

\* three rows, each with a record of scalars, one of them replacing a cell
\* of an original column
MergeOfScalarRecordsWitness ==
    /\ ScalarRecords
    /\ LenDf(Original) = 3
    /\ \E i \in 1..3 : HasKey(Predictions.v[i], "f") /\ Cell(df, i, "f") = Num(9)
    /\ \E i \in 1..3 : Cell(df, i, "label") = Str("x")
    /\ \E i \in 1..3 : Predictions.v[i] = Dict(<<>>)

(* C7: cells stay scalar.  After process_predictions no cell holds a list  *)
(* or a mapping: a list or mapping value is stored as its JSON text, any   *)
(* other value as it is.                                                   *)
CellsStayScalar ==
    Merged =>
        /\ \A i \in 1..LenDf(df) : \A c \in 1..Len(df.rows[i]) : IsScalar(df.rows[i][c])
        /\ ~Mismatch(Predictions, Original) =>
              \A i \in 1..Len(Predictions.v) :
                 IsDict(Predictions.v[i]) =>
                    \A n \in 1..Len(Predictions.v[i].v) :
                       Cell(df, i, Predictions.v[i].v[n][1]) = Stored(Predictions.v[i].v[n][2])

\* a list and a mapping stored as their JSON texts
CellsStayScalarWitness ==
    /\ RightLength
    /\ \E i \in 1..LenDf(df) :
          /\ HasColumn(df, "score")
          /\ HasColumn(df, "meta")
          /\ Cell(df, i, "score") = Str("[1, 2]")
          /\ Cell(df, i, "meta") = Str("{\"a\": \"b\"}")

(* C9: a record that is not a mapping is skipped.  In a list of the right  *)
(* length such a record leaves its row as it was, every mapping record is  *)
(* still applied to its own row, and a column that was not in the input is *)
(* populated exactly in the rows whose record supplied it.                 *)
NonMappingSkipped ==
    RightLength =>
        \A i \in 1..LenDf(df) :
           /\ Len(df.rows[i]) = Len(df.columns)
           /\ ~IsDict(Predictions.v[i]) =>
                 \A c \in 1..Len(df.columns) :
                    df.rows[i][c] = IF HasColumn(Original, df.columns[c])
                                    THEN Cell(Original, i, df.columns[c])
                                    ELSE NaN
           /\ IsDict(Predictions.v[i]) =>
                 \A n \in 1..Len(Predictions.v[i].v) :
                    Cell(df, i, Predictions.v[i].v[n][1]) = Stored(Predictions.v[i].v[n][2])
           /\ \A c \in 1..Len(df.columns) :
                 ~HasColumn(Original, df.columns[c]) =>
                    /\ \E j \in 1..LenDf(df) :
                          IsDict(Predictions.v[j]) /\ HasKey(Predictions.v[j], df.columns[c])
                    /\ (df.rows[i][c] # NaN) <=>
                          (IsDict(Predictions.v[i]) /\ HasKey(Predictions.v[i], df.columns[c]))

\* a record that is not a mapping between two mapping records that add a
\* column
NonMappingSkippedWitness ==
    /\ RightLength
    /\ LenDf(df) = 3
    /\ IsDict(Predictions.v[1]) /\ HasKey(Predictions.v[1], "score")
    /\ ~IsDict(Predictions.v[2])
    /\ IsDict(Predictions.v[3]) /\ HasKey(Predictions.v[3], "score")
    /\ Cell(df, 1, "score") # NaN
    /\ Cell(df, 2, "score") = NaN
    /\ Cell(df, 3, "score") # NaN

(* C8: a listing failure ends the run.  It is caught in                    *)
(* process_all_csv_files: no file is processed, nothing is read, invoked   *)
(* or written, and the function returns; the handler of                    *)
(* process_all_csv_files is reached by nothing but the listing failure, so *)
(* a run whose listing succeeded ends only after its last listed file.     *)
ListingFailureAborts ==
    /\ (ListFailed =>
          /\ calls = <<>>
          /\ csv_files = <<>>
          /\ bucket = bucket0
          /\ \A n \in 1..Len(log) : log[n].op \in {"list", "error"}
          /\ outcome # "raised"
          /\ (pc = "done" => outcome = "returned" /\ Len(log) = 2))
    /\ (pc = "except_all" => ListFailed /\ Len(log) = 1)
    /\ (pc = "done" /\ ~ListFailed => idx = Len(csv_files) /\ pc # "except_all")

\* the listing of a bucket that holds inputs failed and the run is over
ListingFailureAbortsWitness ==
    /\ pc = "done"
    /\ ListFailed
    /\ InputCsvKeys(bucket) # {}

(* C10: every successful file has its own output.  At the end of the run   *)
(* the object at output_prefix + base name of every input that was written *)
(* holds what was written for that input, and no object under the input    *)
(* prefix was created or changed.                                          *)
EachSuccessHasItsOutput ==
    pc = "done" =>
        /\ \A n \in 1..Len(log) :
              log[n].op = "write" /\ log[n].ok =>
                 /\ OutputKey(calls[log[n].call]) \in DOMAIN bucket
                 /\ bucket[OutputKey(calls[log[n].call])] = log[n].data
        /\ \A k \in DOMAIN bucket :
              StartsWith(k, input_prefix) => k \in DOMAIN bucket0 /\ bucket[k] = bucket0[k]

====
